---- MODULE Spec2Model ----
(***************************************************************************)
(* A model of tmplreload: Tmpl (tmpl.go), funcMap (funcmap.go) and         *)
(* TmplColl (the collection with watched directories and the background    *)
(* sweep).  Client goroutines call the collection and a Tmpl they hold;    *)
(* the environment advances the clock and writes and deletes               *)
(* files.  Every critical section of a mutex is one step; a call that      *)
(* leaves a mutex between two sections is several steps.  The behaviours   *)
(* checked are those of the scenarios at the end: each lets some clients   *)
(* make some of the calls, over the same actions.                          *)
(***************************************************************************)
EXTENDS Integers, Sequences, FiniteSets, TLC

(***************************************************************************)
(* Bounds of the model.                                                    *)
(***************************************************************************)
MaxTime == 2            \* the clock runs over 0..MaxTime (seconds)
MaxClock == 4           \* and over 0..MaxClock where throttle windows are counted
MaxTmpl == 3            \* Tmpl objects alive at once

(***************************************************************************)
(* Program constants.                                                      *)
(***************************************************************************)
MinInt64 == -1000       \* math.MinInt64: below every clock value of the model
DefaultMinUpdateIntvlSecs == 1
AutoRefreshOff == -1

Threads == {"t1", "t2"}         \* client goroutines
Bg == "bg"                      \* the goroutine New starts
Procs == Threads \cup {Bg}
NoProc == "none"

Paths == {"d/a.html", "e/b.txt"}        \* absolute paths
Dirs == {"d", "e"}
NoPath == ""
Funcs == {"F", "G"}                     \* function names
Sources == {"s0", "s1", "sF", "sG"}     \* file contents
NoSrc == "nil"
Left == "{{"                            \* the default left delimiter
Alt == "[["                             \* another left delimiter
Delimiters == {Left, Alt}
NoOption == ""                          \* no value for the key "missingkey"
Options == {"error"}                    \* values of that key: "missingkey=error"
MinIntvls == {-1, 0, 1, 2}              \* arguments of NewTmpl

Dir(p) == IF p = "d/a.html" THEN "d" ELSE "e"
Ext(p) == IF p = "d/a.html" THEN ".html" ELSE ".txt"

\* the functions a source calls in its actions, and the delimiter it is
\* written with
SrcRefs(s) == IF s = "sF" THEN {"F"} ELSE IF s = "sG" THEN {"G"} ELSE {}
SrcDelim(s) == Left

TmplIds == 1..MaxTmpl
Nil == 0

(***************************************************************************)
(* The filesystem: os.Stat and the file's content.                         *)
(***************************************************************************)
NoFile == [exists |-> FALSE, mtime |-> 0, src |-> NoSrc]
File(m, s) == [exists |-> TRUE, mtime |-> m, src |-> s]

(***************************************************************************)
(* text/template: a compiled template keeps the source it was parsed from, *)
(* the delimiters and a copy of the functions it was given.                *)
(***************************************************************************)
NilTemplate == [src |-> NoSrc, delims |-> Left, funcs |-> {}, options |-> NoOption]

\* a pair of delimiters that mixes two settings: the left of the one with
\* the right of the other.  With TornLeft no action of a source is found;
\* with TornRight an action is opened and never closed
TornLeft == "[[}}"
TornRight == "{{]]"

\* template.New(..).Delims(..).Funcs(..).ParseFiles(filename): the file is
\* read; an action that calls a function the table lacks, or one that is
\* not closed, is a parse error; text written with other delimiters is
\* literal text
ParseFilesErr(f, delims, funcs) ==
    IF ~f.exists THEN "ReadErr"
    ELSE IF delims = TornRight THEN "ParseErr"
    ELSE IF SrcDelim(f.src) = delims /\ ~(SrcRefs(f.src) \subseteq funcs)
         THEN "ParseErr"
         ELSE "nil"

Compiled(f, delims, funcs, options) ==
    [src |-> f.src, delims |-> delims, funcs |-> funcs, options |-> options]

\* (*template.Template).Execute: the bytes written
Render(c) ==
    [kind |-> IF SrcDelim(c.src) = c.delims THEN "evaluated" ELSE "raw",
     src |-> c.src]
NoOutput == [kind |-> "none", src |-> NoSrc]

(***************************************************************************)
(* Tmpl (tmpl.go).  funcs is funcMap.functions, the names only.  Some      *)
(* operators are preceded by a faulty variant of themselves (the mark not  *)
(* set, the recheck inverted, the error dropped): the properties below are *)
(* expected to fail when the variant takes the operator's place.           *)
(***************************************************************************)
NewTmpl(minUpdateIntvlSecs) ==
    [minUpdateIntvlSecs |-> minUpdateIntvlSecs,
     delims |-> Left,
     funcs |-> {},
     funcMapUpdated |-> FALSE,
     options |-> NoOption,
     tmpl |-> NilTemplate,
     lastMod |-> MinInt64,
     lastUpdate |-> MinInt64,
     lastParsed |-> NoPath]

TmplDelims(t, left) == [t EXCEPT !.delims = left]

\* Tmpl.Option("missingkey=" + value): the value is recorded, and set on the
\* compiled template when there is one
TmplOption(t, value) ==
    [t EXCEPT !.options = value,
              !.tmpl = IF @ # NilTemplate THEN [@ EXCEPT !.options = value] ELSE @]

TmplFuncsAddNoMark(t, names) == [t EXCEPT !.funcs = @ \cup names]
TmplFuncsAdd(t, names) ==
    [t EXCEPT !.funcs = @ \cup names, !.funcMapUpdated = TRUE]

TmplFuncsRemove(t, names) ==
    [t EXCEPT !.funcs = @ \ names, !.funcMapUpdated = TRUE]

\* os.Stat(filename)
Stat(fs, filename) == IF filename \in Paths THEN fs[filename] ELSE NoFile

\* line 105 and line 114 of parseFile
ModifiedMtimeOnly(t, mtime) == mtime # t.lastMod
Modified(t, mtime) == mtime # t.lastMod \/ t.funcMapUpdated

\* lines 114-130 of parseFile, the section under t.mtx: fileInfoModTime is
\* what os.Stat returned, f the file as template.ParseFiles reads it now
CompileKeepOnErr(t, filename, fileInfoModTime, f, tnow) ==
    IF ~Modified(t, fileInfoModTime) THEN [t |-> t, err |-> "nil", compiled |-> FALSE]
    ELSE [t |-> [t EXCEPT !.tmpl = IF f.exists THEN Compiled(f, t.delims, t.funcs, t.options)
                                   ELSE NilTemplate,
                          !.lastMod = fileInfoModTime,
                          !.lastUpdate = tnow,
                          !.lastParsed = filename],
          err |-> ParseFilesErr(f, t.delims, t.funcs),
          compiled |-> TRUE]
CompileSection(t, filename, fileInfoModTime, f, tnow) ==
    IF ~Modified(t, fileInfoModTime) THEN [t |-> t, err |-> "nil", compiled |-> FALSE]
    ELSE LET err == ParseFilesErr(f, t.delims, t.funcs) IN
         IF err = "nil"
         THEN [t |-> [t EXCEPT !.tmpl = Compiled(f, t.delims, t.funcs, t.options),
                               !.lastMod = fileInfoModTime,
                               !.lastUpdate = tnow,
                               !.lastParsed = filename],
               err |-> "nil", compiled |-> TRUE]
         ELSE [t |-> t, err |-> err, compiled |-> TRUE]

\* parseFile(filename, lock) run in one piece: the stat, then the section
ParseFileNow(t, filename, fs, tnow) ==
    LET f == Stat(fs, filename) IN
    IF ~f.exists THEN [t |-> t, err |-> "StatErr", compiled |-> FALSE]
    ELSE CompileSection(t, filename, f.mtime, f, tnow)

\* line 157 of Execute
InitiatedAlways(t) == TRUE
Initiated(t) == t.tmpl # NilTemplate

\* line 158 of Execute
UpdateRequiredLate(t, currentTime) ==
    t.minUpdateIntvlSecs # AutoRefreshOff
    /\ t.lastUpdate + t.minUpdateIntvlSecs < currentTime
UpdateRequired(t, currentTime) ==
    t.minUpdateIntvlSecs # AutoRefreshOff
    /\ t.lastUpdate + t.minUpdateIntvlSecs <= currentTime

\* lines 166-171 of Execute, the section under t.mtx.Lock: tstat is the clock
\* at the refresh, tend the clock at line 169
RefreshAlways(t, currentTime, fs, tstat, tend) ==
    LET r == ParseFileNow(t, t.lastParsed, fs, tstat) IN
    [t |-> [r.t EXCEPT !.lastUpdate = tend], err |-> r.err, stat |-> TRUE,
     compiled |-> r.compiled]
RefreshInverted(t, currentTime, fs, tstat, tend) ==
    IF t.lastUpdate > currentTime
    THEN LET r == ParseFileNow(t, t.lastParsed, fs, tstat) IN
         [t |-> [r.t EXCEPT !.lastUpdate = tend], err |-> r.err, stat |-> TRUE,
          compiled |-> r.compiled]
    ELSE [t |-> t, err |-> "nil", stat |-> FALSE, compiled |-> FALSE]
RefreshDropErr(t, currentTime, fs, tstat, tend) ==
    IF t.lastUpdate < currentTime
    THEN LET r == ParseFileNow(t, t.lastParsed, fs, tstat) IN
         [t |-> [r.t EXCEPT !.lastUpdate = tend], err |-> "nil", stat |-> TRUE,
          compiled |-> r.compiled]
    ELSE [t |-> t, err |-> "nil", stat |-> FALSE, compiled |-> FALSE]
RefreshSection(t, currentTime, fs, tstat, tend) ==
    IF t.lastUpdate < currentTime
    THEN LET r == ParseFileNow(t, t.lastParsed, fs, tstat) IN
         [t |-> [r.t EXCEPT !.lastUpdate = tend], err |-> r.err, stat |-> TRUE,
          compiled |-> r.compiled]
    ELSE [t |-> t, err |-> "nil", stat |-> FALSE, compiled |-> FALSE]


(***************************************************************************)
(* State.                                                                  *)
(***************************************************************************)
VARIABLES
    now,        \* time.Now().Unix()
    files,      \* the filesystem: path -> file
    collFuncs,  \* TmplColl.funcMap.functions
    collDelims, \* TmplColl.delims[0]
    collOptions,\* TmplColl.options["missingkey"], NoOption when not a key
    dirs,       \* TmplColl.dirs: dir -> filter, "unwatched" when not a key
    tmpls,      \* TmplColl.tmpls: path -> *Tmpl
    heap,       \* the Tmpl objects
    mtxReaders, \* the goroutines holding TmplColl.mtx.RLock
    modsMtx,    \* the goroutine holding TmplColl.modsMtx
    stopChan,   \* "open" or "closed"
    pc,         \* where each goroutine is
    loc,        \* the locals of the call each goroutine is in
    h,          \* the handle each client holds (Lookup's result, or its own *Tmpl)
    ret,        \* what the step just taken returned: who, from which call, what
    obs         \* per Tmpl: stat, the clock at the last stat Execute made;
                \* fresh, the contents the file has held since the start of the
                \* last Reload that found the file changed and returned nil

vars == <<now, files, collFuncs, collDelims, collOptions, dirs, tmpls, heap, mtxReaders,
          modsMtx, stopChan, pc, loc, h, ret, obs>>

ZeroTmpl == NewTmpl(DefaultMinUpdateIntvlSecs)

\* locals; pre, seen and failed observe the call: whether the refresh was
\* due when Execute read the clock, the contents the file has held since,
\* whether a refresh of the Tmpl (a load of the batch) failed since; gone
\* and stay observe a sweep: the keys whose file has been missing, and
\* present, ever since the sweep began
NoLoc ==
    [op |-> "none", todo |-> <<>>, set |-> {}, gone |-> {}, stay |-> {}, cur |-> Nil, ct |-> 0,
     new |-> ZeroTmpl, path |-> NoPath, mt |-> 0, names |-> {},
     pre |-> FALSE, seen |-> {}, failed |-> FALSE]

NoRet == [by |-> NoProc, op |-> "none", path |-> NoPath, err |-> "nil", out |-> NoOutput]

Range(f) == {f[x] : x \in DOMAIN f}

\* the Tmpl objects something still points to
RefsOfMap(m, hh) == Range(m) \ {Nil}
RefsOf(m, hh) == (Range(m) \cup Range(hh)) \ {Nil}

\* objects nothing points to are collected
Gc(hp, refs) == [i \in TmplIds |-> IF i \in refs THEN hp[i] ELSE ZeroTmpl]
NoObs == [stat |-> MinInt64, fresh |-> {}]
GcLog(lg, refs) == [i \in TmplIds |-> IF i \in refs THEN lg[i] ELSE NoObs]

Min(S) == CHOOSE x \in S : \A y \in S : x <= y

\* the ticks the clock may make while a section runs, the clock running
\* up to end
Elapsed(end) == {d \in {0, 1} : now + d <= end}

\* where a goroutine goes when a call returns: the background goroutine
\* runs IndexDirs, then RemoveStaleTemplates, then selects again
AfterReturn(t, op) ==
    IF t # Bg THEN "idle"
    ELSE IF op = "IndexDirs" THEN "rs_call" ELSE "select"

Return(t, op, path, err, out) ==
    /\ pc' = [pc EXCEPT ![t] = AfterReturn(t, op)]
    /\ ret' = [by |-> t, op |-> op, path |-> path, err |-> err, out |-> out]

CanCall(t) == t \in Threads /\ pc[t] = "idle"

\* t.mtx.Lock() is granted when no goroutine holds t.mtx.RLock (a writer's
\* section is one step); t.modsMtx.Lock() when no goroutine holds modsMtx
CanLockAlways == TRUE
CanLock == mtxReaders = {}
ModsFreeAlways == TRUE
ModsFree == modsMtx = NoProc

TypeOK ==
    /\ now \in 0..MaxTime \cup 0..MaxClock
    /\ \A p \in Paths : files[p].exists \in BOOLEAN
    /\ collFuncs \subseteq Funcs
    /\ \A p \in Paths : tmpls[p] \in TmplIds \cup {Nil}
    /\ mtxReaders \subseteq Threads
    /\ modsMtx \in Procs \cup {NoProc}
    /\ stopChan \in {"open", "closed"}

(***************************************************************************)
(* New (part_000 55-91): an empty collection and its background goroutine. *)
(***************************************************************************)
Init ==
    /\ now = 0
    /\ files = [p \in Paths |-> NoFile]
    /\ collFuncs = {}
    /\ collDelims = Left
    /\ collOptions = NoOption
    /\ dirs = [d \in Dirs |-> "unwatched"]
    /\ tmpls = [p \in Paths |-> Nil]
    /\ heap = [i \in TmplIds |-> ZeroTmpl]
    /\ mtxReaders = {}
    /\ modsMtx = NoProc
    /\ stopChan = "open"
    /\ pc = [t \in Procs |-> IF t = Bg THEN "select" ELSE "idle"]
    /\ loc = [t \in Procs |-> NoLoc]
    /\ h = [t \in Threads |-> Nil]
    /\ ret = NoRet
    /\ obs = [i \in TmplIds |-> NoObs]

(***************************************************************************)
(* The environment: the clock, and writes and deletions of files.          *)
(***************************************************************************)
TickTo(end) ==
    /\ now < end
    /\ now' = now + 1
    /\ UNCHANGED <<files, collFuncs, collDelims, collOptions, dirs, tmpls, heap,
                   mtxReaders, modsMtx, stopChan, pc, loc, h, obs>>
    /\ ret' = NoRet

Tick == TickTo(MaxTime)
TickLong == TickTo(MaxClock)

\* a call in flight on the Tmpl parsed from p sees the file take content s;
\* a sweep in flight has no longer seen p missing throughout (gone)
Observe(p, s) ==
    [t \in Procs |->
        IF loc[t].cur # Nil /\ heap[loc[t].cur].lastParsed = p
        THEN [loc[t] EXCEPT !.seen = @ \cup {s}]
        ELSE loc[t]]

WriteFile(p, s) ==
    /\ files[p] # File(now, s)
    /\ files' = [files EXCEPT ![p] = File(now, s)]
    /\ loc' = [t \in Procs |-> [Observe(p, s)[t] EXCEPT !.gone = @ \ {p}]]
    /\ obs' = [i \in TmplIds |->
                IF heap[i].lastParsed = p /\ obs[i].fresh # {}
                THEN [obs[i] EXCEPT !.fresh = @ \cup {s}]
                ELSE obs[i]]
    /\ UNCHANGED <<now, collFuncs, collDelims, collOptions, dirs, tmpls, heap, mtxReaders,
                   modsMtx, stopChan, pc, h>>
    /\ ret' = NoRet

DeleteFile(p) ==
    /\ files[p].exists
    /\ files' = [files EXCEPT ![p] = NoFile]
    /\ loc' = [t \in Procs |-> [loc[t] EXCEPT !.stay = @ \ {p}]]
    /\ UNCHANGED <<now, collFuncs, collDelims, collOptions, dirs, tmpls, heap, mtxReaders,
                   modsMtx, stopChan, pc, h, obs>>
    /\ ret' = NoRet


(***************************************************************************)
(* Tmpl.Execute (tmpl.go 153-185), called by ExecuteTemplate with           *)
(* TmplColl.mtx read-locked, or on a handle.                               *)
(***************************************************************************)
\* line 154: currentTime := time.Now().Unix()
ExecLocals(t, id, path) ==
    LET tm == heap[id]
        f == Stat(files, tm.lastParsed) IN
    [NoLoc EXCEPT !.op = "Execute", !.cur = id, !.ct = now, !.path = path,
                  !.pre = /\ tm.tmpl # NilTemplate
                          /\ tm.minUpdateIntvlSecs # AutoRefreshOff
                          /\ now - tm.lastUpdate >= tm.minUpdateIntvlSecs
                          /\ f.exists
                          /\ f.mtime # tm.lastMod
                          /\ f.src # tm.tmpl.src,
                  !.seen = IF f.exists THEN {f.src} ELSE {}]

\* TmplColl.ExecuteTemplate (part_000 170-183)
ExecuteTemplate(t, p) ==
    /\ CanCall(t)
    /\ IF tmpls[p] = Nil
       THEN /\ Return(t, "ExecuteTemplate", p, "ErrNotExist", NoOutput)
            /\ loc' = [loc EXCEPT ![t] = NoLoc]
            /\ UNCHANGED mtxReaders
       ELSE /\ mtxReaders' = mtxReaders \cup {t}
            /\ loc' = [loc EXCEPT ![t] = ExecLocals(t, tmpls[p], p)]
            /\ pc' = [pc EXCEPT ![t] = "ex_check"]
            /\ ret' = NoRet
    /\ UNCHANGED <<now, files, collFuncs, collDelims, collOptions, dirs, tmpls, heap,
                   modsMtx, stopChan, h, obs>>

\* Execute on the handle
HandleExecute(t) ==
    /\ CanCall(t)
    /\ h[t] # Nil
    /\ loc' = [loc EXCEPT ![t] = ExecLocals(t, h[t], NoPath)]
    /\ pc' = [pc EXCEPT ![t] = "ex_check"]
    /\ ret' = NoRet
    /\ UNCHANGED <<now, files, collFuncs, collDelims, collOptions, dirs, tmpls, heap,
                   mtxReaders, modsMtx, stopChan, h, obs>>

\* lines 156-163: initiated and updateRequired, read under t.mtx.RLock
ExecCheck(t) ==
    /\ pc[t] = "ex_check"
    /\ LET tm == heap[loc[t].cur] IN
       IF ~Initiated(tm)
       THEN /\ Return(t, "Execute", loc[t].path, "ErrNotExist", NoOutput)
            /\ loc' = [loc EXCEPT ![t] = NoLoc]
            /\ mtxReaders' = mtxReaders \ {t}
       ELSE /\ pc' = [pc EXCEPT ![t] =
                        IF UpdateRequired(tm, loc[t].ct) THEN "ex_refresh" ELSE "ex_render"]
            /\ UNCHANGED <<loc, mtxReaders>>
            /\ ret' = NoRet
    /\ UNCHANGED <<now, files, collFuncs, collDelims, collOptions, dirs, tmpls, heap,
                   modsMtx, stopChan, h, obs>>

\* a refresh of Tmpl id failed: the calls in flight on it are told
Failed(id) ==
    [u \in Procs |-> IF loc[u].cur = id THEN [loc[u] EXCEPT !.failed = TRUE] ELSE loc[u]]

\* lines 165-172: the refresh under t.mtx.Lock
ExecRefreshTo(t, end) ==
    /\ pc[t] = "ex_refresh"
    /\ \E d \in Elapsed(end) :
        LET id == loc[t].cur
            r == RefreshSection(heap[id], loc[t].ct, files, now, now + d)
            hp == [heap EXCEPT ![id] = r.t]
            lg == IF r.stat THEN [obs EXCEPT ![id].stat = now] ELSE obs IN
        /\ now' = now + d
        /\ IF r.err # "nil"
           THEN /\ Return(t, "Execute", loc[t].path, r.err, NoOutput)
                /\ loc' = [Failed(id) EXCEPT ![t] = NoLoc]
                /\ mtxReaders' = mtxReaders \ {t}
           ELSE /\ pc' = [pc EXCEPT ![t] = "ex_render"]
                /\ UNCHANGED <<loc, mtxReaders>>
                /\ ret' = NoRet
        /\ heap' = hp
        /\ obs' = lg
    /\ UNCHANGED <<files, collFuncs, collDelims, collOptions, dirs, tmpls, modsMtx, stopChan, h>>

ExecRefresh(t) == ExecRefreshTo(t, MaxTime)
ExecRefreshLong(t) == ExecRefreshTo(t, MaxClock)

\* lines 174-184: the render under t.mtx.RLock
ExecRender(t) ==
    /\ pc[t] = "ex_render"
    /\ LET tm == heap[loc[t].cur] IN
       IF tm.tmpl = NilTemplate
       THEN Return(t, "Execute", loc[t].path, "ErrNotExist", NoOutput)
       ELSE Return(t, "Execute", loc[t].path, "nil", Render(tm.tmpl))
    /\ loc' = [loc EXCEPT ![t] = NoLoc]
    /\ mtxReaders' = mtxReaders \ {t}
    /\ UNCHANGED <<now, files, collFuncs, collDelims, collOptions, dirs, tmpls, heap,
                   modsMtx, stopChan, h, obs>>

(***************************************************************************)
(* Tmpl.ParseFile and Tmpl.Reload (tmpl.go 95-150), called on a handle or  *)
(* by ReloadFiles.                                                         *)
(***************************************************************************)
\* Reload or ParseFile returns err: to the client, or to the loop of
\* ReloadFiles, which drops it and goes on
ParseFileReturn(t, err) ==
    IF loc[t].op = "ReloadFiles"
    THEN /\ pc' = [pc EXCEPT ![t] = "rf_next"]
         /\ ret' = [by |-> t, op |-> "Reload", path |-> loc[t].path, err |-> err,
                    out |-> NoOutput]
         /\ loc' = [loc EXCEPT ![t] = [NoLoc EXCEPT !.op = "ReloadFiles",
                                                    !.todo = Tail(loc[t].todo)]]
    ELSE /\ Return(t, loc[t].op, loc[t].path, err, NoOutput)
         /\ loc' = [loc EXCEPT ![t] = NoLoc]

\* a Reload that found the file changed has returned nil
Reloaded(t, err) ==
    IF err = "nil" /\ loc[t].pre /\ loc[t].op # "ParseFile"
    THEN [obs EXCEPT ![loc[t].cur].fresh = loc[t].seen]
    ELSE obs

\* Tmpl.ParseFile(filename) on the handle; lines 96-100, os.Stat(filename),
\* are outside any lock
HandleParseFile(t, filename) ==
    /\ CanCall(t)
    /\ h[t] # Nil
    /\ LET f == Stat(files, filename) IN
       IF ~f.exists
       THEN /\ Return(t, "ParseFile", filename, "StatErr", NoOutput)
            /\ UNCHANGED loc
       ELSE /\ loc' = [loc EXCEPT ![t] =
                        [NoLoc EXCEPT !.op = "ParseFile", !.cur = h[t],
                                      !.path = filename, !.mt = f.mtime,
                                      !.pre = f.mtime # heap[h[t]].lastMod,
                                      !.seen = {f.src}]]
            /\ pc' = [pc EXCEPT ![t] = "pf_check"]
            /\ ret' = NoRet
    /\ UNCHANGED <<now, files, collFuncs, collDelims, collOptions, dirs, tmpls, heap,
                   mtxReaders, modsMtx, stopChan, h, obs>>

\* Tmpl.Reload() on the handle: lastParsed read under t.mtx.RLock, then
\* ParseFile
HandleReload(t) ==
    /\ CanCall(t)
    /\ h[t] # Nil
    /\ LET filename == heap[h[t]].lastParsed
           f == Stat(files, filename) IN
       IF ~f.exists
       THEN /\ Return(t, "Reload", filename, "StatErr", NoOutput)
            /\ UNCHANGED loc
       ELSE /\ loc' = [loc EXCEPT ![t] =
                        [NoLoc EXCEPT !.op = "Reload", !.cur = h[t],
                                      !.path = filename, !.mt = f.mtime,
                                      !.pre = f.mtime # heap[h[t]].lastMod,
                                      !.seen = {f.src}]]
            /\ pc' = [pc EXCEPT ![t] = "pf_check"]
            /\ ret' = NoRet
    /\ UNCHANGED <<now, files, collFuncs, collDelims, collOptions, dirs, tmpls, heap,
                   mtxReaders, modsMtx, stopChan, h, obs>>

\* lines 102-108: modified, read under t.mtx.RLock
ParseFileCheck(t) ==
    /\ pc[t] = "pf_check"
    /\ IF Modified(heap[loc[t].cur], loc[t].mt)
       THEN /\ pc' = [pc EXCEPT ![t] = "pf_compile"]
            /\ UNCHANGED <<loc, obs>>
            /\ ret' = NoRet
       ELSE /\ ParseFileReturn(t, "nil")
            /\ obs' = Reloaded(t, "nil")
    /\ UNCHANGED <<now, files, collFuncs, collDelims, collOptions, dirs, tmpls, heap,
                   mtxReaders, modsMtx, stopChan, h>>

\* lines 110-136: the compile under t.mtx.Lock
ParseFileCompile(t) ==
    /\ pc[t] = "pf_compile"
    /\ LET id == loc[t].cur
           r == CompileSection(heap[id], loc[t].path, loc[t].mt,
                               Stat(files, loc[t].path), now) IN
       /\ heap' = [heap EXCEPT ![id] = r.t]
       /\ ParseFileReturn(t, r.err)
       /\ obs' = Reloaded(t, r.err)
    /\ UNCHANGED <<now, files, collFuncs, collDelims, collOptions, dirs, tmpls,
                   mtxReaders, modsMtx, stopChan, h>>

\* Tmpl.Delims, Tmpl.Option("missingkey=" + value) and Tmpl.FuncsAdd on the
\* handle (tmpl.go 46-93), each under t.mtx.Lock
HandleDelims(t, left) ==
    /\ CanCall(t)
    /\ h[t] # Nil
    /\ heap' = [heap EXCEPT ![h[t]] = TmplDelims(@, left)]
    /\ Return(t, "Tmpl.Delims", NoPath, "nil", NoOutput)
    /\ UNCHANGED <<now, files, collFuncs, collDelims, collOptions, dirs, tmpls,
                   mtxReaders, modsMtx, stopChan, loc, h, obs>>

HandleOption(t, value) ==
    /\ CanCall(t)
    /\ h[t] # Nil
    /\ heap' = [heap EXCEPT ![h[t]] = TmplOption(@, value)]
    /\ Return(t, "Tmpl.Option", NoPath, "nil", NoOutput)
    /\ UNCHANGED <<now, files, collFuncs, collDelims, collOptions, dirs, tmpls,
                   mtxReaders, modsMtx, stopChan, loc, h, obs>>

HandleFuncsAdd(t, names) ==
    /\ CanCall(t)
    /\ h[t] # Nil
    /\ heap' = [heap EXCEPT ![h[t]] = TmplFuncsAdd(@, names)]
    /\ Return(t, "Tmpl.FuncsAdd", NoPath, "nil", NoOutput)
    /\ UNCHANGED <<now, files, collFuncs, collDelims, collOptions, dirs, tmpls,
                   mtxReaders, modsMtx, stopChan, loc, h, obs>>

(***************************************************************************)
(* TmplColl.ReloadFiles (part_000 235-254).                                *)
(***************************************************************************)
ReloadFiles(t, batch) ==
    /\ CanCall(t)
    /\ ModsFree
    /\ modsMtx' = t
    /\ loc' = [loc EXCEPT ![t] = [NoLoc EXCEPT !.op = "ReloadFiles", !.todo = batch]]
    /\ pc' = [pc EXCEPT ![t] = "rf_next"]
    /\ UNCHANGED <<now, files, collFuncs, collDelims, collOptions, dirs, tmpls, heap,
                   mtxReaders, stopChan, h, obs>>
    /\ ret' = NoRet

\* lines 240-253: the next filename; t.tmpls[absPath] is read under
\* t.mtx.RLock, and tmpl.Reload() begun when it is not nil
ReloadFilesNext(t) ==
    /\ pc[t] = "rf_next"
    /\ IF loc[t].todo = <<>>
       THEN /\ Return(t, "ReloadFiles", NoPath, "nil", NoOutput)
            /\ modsMtx' = NoProc
            /\ loc' = [loc EXCEPT ![t] = NoLoc]
       ELSE LET p == Head(loc[t].todo) IN
            /\ IF tmpls[p] = Nil
               THEN /\ loc' = [loc EXCEPT ![t].todo = Tail(@)]
                    /\ UNCHANGED pc
                    /\ ret' = NoRet
               ELSE LET filename == heap[tmpls[p]].lastParsed
                        f == Stat(files, filename) IN
                    IF ~f.exists
                    THEN /\ ret' = [by |-> t, op |-> "Reload", path |-> filename,
                                    err |-> "StatErr", out |-> NoOutput]
                         /\ loc' = [loc EXCEPT ![t].todo = Tail(@)]
                         /\ UNCHANGED pc
                    ELSE /\ loc' = [loc EXCEPT ![t].cur = tmpls[p],
                                               ![t].path = filename,
                                               ![t].mt = f.mtime,
                                               ![t].pre = f.mtime # heap[tmpls[p]].lastMod,
                                               ![t].seen = {f.src}]
                         /\ pc' = [pc EXCEPT ![t] = "pf_check"]
                         /\ ret' = NoRet
            /\ UNCHANGED modsMtx
    /\ UNCHANGED <<now, files, collFuncs, collDelims, collOptions, dirs, tmpls, heap,
                   mtxReaders, stopChan, h, obs>>

(***************************************************************************)
(* TmplColl.parseFiles (part_000 185-215), for ParseFiles and for the      *)
(* walk of IndexDirs.                                                      *)
(***************************************************************************)
\* lines 197-204: NewTmpl() with the collection's delimiters and functions
BuildTmplDefaults == TmplFuncsAdd(NewTmpl(DefaultMinUpdateIntvlSecs), collFuncs)
BuildTmpl ==
    LET tmpl == TmplFuncsAdd(TmplDelims(NewTmpl(DefaultMinUpdateIntvlSecs), collDelims),
                             collFuncs) IN
    IF collOptions = NoOption THEN tmpl ELSE TmplOption(tmpl, collOptions)

\* lines 205-207: "if tmpl.ParseFile(absPath); err != nil" tests the err of
\* filepath.Abs, which is nil here; the result of ParseFile is dropped
LoadErrSeen(parseErr) == "nil"

\* ParseFiles(filenames...): modsMtx is taken
ParseFiles(t, batch) ==
    /\ CanCall(t)
    /\ ModsFree
    /\ modsMtx' = t
    /\ loc' = [loc EXCEPT ![t] = [NoLoc EXCEPT !.op = "ParseFiles", !.todo = batch]]
    /\ pc' = [pc EXCEPT ![t] = "pfs_parse"]
    /\ ret' = NoRet
    /\ UNCHANGED <<now, files, collFuncs, collDelims, collOptions, dirs, tmpls, heap,
                   mtxReaders, stopChan, h, obs>>

\* filepath.Glob(pattern): the files that match, in lexical order
Patterns == {"d/*", "*/*"}
Glob(fs, pattern) ==
    LET Matches(p) == fs[p].exists /\ (pattern = "*/*" \/ Dir(p) = "d") IN
    SelectSeq(<<"d/a.html", "e/b.txt">>, Matches)

\* ParseGlob(pattern) (part_000 222-233): modsMtx is taken, the pattern is
\* expanded, and parseFiles(false, filenames...) runs
ParseGlob(t, pattern) ==
    /\ CanCall(t)
    /\ ModsFree
    /\ LET filenames == Glob(files, pattern) IN
       IF filenames = <<>>
       THEN /\ Return(t, "ParseGlob", NoPath, "nil", NoOutput)
            /\ UNCHANGED <<loc, modsMtx>>
       ELSE /\ loc' = [loc EXCEPT ![t] = [NoLoc EXCEPT !.op = "ParseGlob",
                                                       !.todo = filenames]]
            /\ modsMtx' = t
            /\ pc' = [pc EXCEPT ![t] = "pfs_parse"]
            /\ ret' = NoRet
    /\ UNCHANGED <<now, files, collFuncs, collDelims, collOptions, dirs, tmpls, heap,
                   mtxReaders, stopChan, h, obs>>

\* the end of a batch: ParseFiles and ParseGlob return and release modsMtx,
\* IndexDirs too once its walk is over
EndBatchLocked(t, err) ==
    /\ Return(t, loc[t].op, NoPath, err, NoOutput)
    /\ UNCHANGED modsMtx
EndBatch(t, err) ==
    /\ Return(t, loc[t].op, NoPath, err, NoOutput)
    /\ modsMtx' = NoProc

\* lines 191-207 for the first path left: the Tmpl is built and parsed
ParseFilesParse(t) ==
    /\ pc[t] = "pfs_parse"
    /\ LET p == Head(loc[t].todo)
           r == ParseFileNow(BuildTmpl, p, files, now)
           err == LoadErrSeen(r.err) IN
       IF err # "nil" /\ loc[t].op \in {"ParseFiles", "ParseGlob"}
       THEN /\ EndBatch(t, err)
            /\ loc' = [loc EXCEPT ![t] = NoLoc]
       ELSE IF err # "nil"
       THEN \* parseFiles(false, path) returns to the walk, which goes on
            /\ IF Tail(loc[t].todo) = <<>>
               THEN /\ EndBatch(t, "nil")
                    /\ loc' = [loc EXCEPT ![t] = NoLoc]
               ELSE /\ loc' = [loc EXCEPT ![t].todo = Tail(@)]
                    /\ UNCHANGED <<pc, modsMtx>>
                    /\ ret' = NoRet
       ELSE /\ loc' = [loc EXCEPT ![t].new = r.t, ![t].path = p,
                                  ![t].failed = @ \/ r.err # "nil"]
            /\ pc' = [pc EXCEPT ![t] = "pfs_publish"]
            /\ UNCHANGED modsMtx
            /\ ret' = NoRet
    /\ UNCHANGED <<now, files, collFuncs, collDelims, collOptions, dirs, tmpls, heap,
                   mtxReaders, stopChan, h, obs>>

\* lines 209-211: t.tmpls[absPath] = tmpl under t.mtx.Lock
ParseFilesPublish(t) ==
    /\ pc[t] = "pfs_publish"
    /\ CanLock
    /\ LET p == loc[t].path
           free == TmplIds \ RefsOf([tmpls EXCEPT ![p] = Nil], h) IN
       /\ free # {}
       /\ tmpls' = [tmpls EXCEPT ![p] = Min(free)]
       /\ heap' = Gc([heap EXCEPT ![Min(free)] = loc[t].new], RefsOf(tmpls', h))
       /\ obs' = GcLog([obs EXCEPT ![Min(free)] = NoObs], RefsOf(tmpls', h))
    /\ IF Tail(loc[t].todo) = <<>>
       THEN /\ EndBatch(t, "nil")
            /\ loc' = [loc EXCEPT ![t] = NoLoc]
       ELSE /\ loc' = [loc EXCEPT ![t].todo = Tail(@), ![t].new = ZeroTmpl,
                                  ![t].path = NoPath]
            /\ pc' = [pc EXCEPT ![t] = "pfs_parse"]
            /\ UNCHANGED modsMtx
            /\ ret' = NoRet
    /\ UNCHANGED <<now, files, collFuncs, collDelims, collOptions, dirs, mtxReaders, stopChan, h>>


(***************************************************************************)
(* Watched directories and the sweeps (part_000 279-344).                  *)
(***************************************************************************)
Filters == {"nil", "DirFilterAll", "DirFilterHTML"}

\* DirFilterAll and DirFilterHTML (part_000 27-38); a nil filter is
\* replaced by DirFilterHTML (lines 313-315)
DirFilterAll(p) == TRUE
DirFilterHTML(p) == Ext(p) \in {".html", ".htm"}
AcceptsNilAll(filter, p) ==
    IF filter = "DirFilterHTML" THEN DirFilterHTML(p) ELSE DirFilterAll(p)
Accepts(filter, p) ==
    IF filter = "DirFilterAll" THEN DirFilterAll(p) ELSE DirFilterHTML(p)

\* the orders in which a set can be ranged over
Orders(S) ==
    {q \in [1..Cardinality(S) -> S] : \A i, j \in 1..Cardinality(S) : q[i] = q[j] => i = j}

\* a sweep is called by a client, or by the background goroutine
CanSweep(t, at) == CanCall(t) \/ (t = Bg /\ pc[Bg] = at)

\* WatchDir(dir, dirFilter) (part_000 330-344)
WatchDir(t, d, filter) ==
    /\ CanCall(t)
    /\ ModsFree
    /\ CanLock
    /\ dirs' = [dirs EXCEPT ![d] = filter]
    /\ Return(t, "WatchDir", d, "nil", NoOutput)
    /\ loc' = [loc EXCEPT ![t] = NoLoc]
    /\ UNCHANGED <<now, files, collFuncs, collDelims, collOptions, tmpls, heap, mtxReaders,
                   modsMtx, stopChan, h, obs>>

\* IndexDirs (part_000 301-327): modsMtx is taken, t.dirs is copied, and the
\* walk finds the regular files the filter accepts
IndexDirs(t) ==
    /\ CanSweep(t, "id_call")
    /\ ModsFree
    /\ LET found == {p \in Paths : /\ dirs[Dir(p)] # "unwatched"
                                   /\ files[p].exists
                                   /\ Accepts(dirs[Dir(p)], p)} IN
       IF found = {}
       THEN /\ Return(t, "IndexDirs", NoPath, "nil", NoOutput)
            /\ loc' = [loc EXCEPT ![t] = NoLoc]
            /\ UNCHANGED modsMtx
       ELSE /\ \E q \in Orders(found) :
                 loc' = [loc EXCEPT ![t] = [NoLoc EXCEPT !.op = "IndexDirs", !.todo = q]]
            /\ modsMtx' = t
            /\ pc' = [pc EXCEPT ![t] = "pfs_parse"]
            /\ ret' = NoRet
    /\ UNCHANGED <<now, files, collFuncs, collDelims, collOptions, dirs, tmpls, heap,
                   mtxReaders, stopChan, h, obs>>

Keys == {p \in Paths : tmpls[p] # Nil}

\* RemoveStaleTemplates (part_000 279-288): modsMtx is taken and the keys
\* are copied
RemoveStaleTemplates(t) ==
    /\ CanSweep(t, "rs_call")
    /\ ModsFree
    /\ IF Keys = {}
       THEN /\ Return(t, "RemoveStaleTemplates", NoPath, "nil", NoOutput)
            /\ loc' = [loc EXCEPT ![t] = NoLoc]
            /\ UNCHANGED modsMtx
       ELSE /\ loc' = [loc EXCEPT ![t] =
                        [NoLoc EXCEPT !.op = "RemoveStaleTemplates", !.set = Keys,
                                      !.gone = {p \in Keys : ~files[p].exists},
                                      !.stay = {p \in Keys : files[p].exists}]]
            /\ modsMtx' = t
            /\ pc' = [pc EXCEPT ![t] = "rs_stat"]
            /\ ret' = NoRet
    /\ UNCHANGED <<now, files, collFuncs, collDelims, collOptions, dirs, tmpls, heap,
                   mtxReaders, stopChan, h, obs>>

\* line 292: the test that decides the eviction
IsStaleNever(f) == FALSE
IsStale(f) == ~f.exists

\* lines 290-297 for one of the copied keys: os.Stat, and the delete under
\* t.mtx.Lock when the file does not exist
RemoveStaleStep(t) ==
    /\ pc[t] = "rs_stat"
    /\ \E p \in loc[t].set :
        /\ IF IsStale(Stat(files, p))
           THEN /\ CanLock
                /\ tmpls' = [tmpls EXCEPT ![p] = Nil]
                /\ heap' = Gc(heap, RefsOf(tmpls', h))
                /\ obs' = GcLog(obs, RefsOf(tmpls', h))
           ELSE UNCHANGED <<tmpls, heap, obs>>
        /\ IF loc[t].set = {p}
           THEN /\ Return(t, "RemoveStaleTemplates", NoPath, "nil", NoOutput)
                /\ modsMtx' = NoProc
                /\ loc' = [loc EXCEPT ![t] = NoLoc]
           ELSE /\ loc' = [loc EXCEPT ![t].set = @ \ {p}]
                /\ UNCHANGED <<pc, modsMtx>>
                /\ ret' = NoRet
    /\ UNCHANGED <<now, files, collFuncs, collDelims, collOptions, dirs, mtxReaders, stopChan, h>>


\* RemoveFiles(filenames...) (part_000 273-276): removeFiles(true, ...)
RemoveFiles(t, batch) ==
    /\ CanCall(t)
    /\ ModsFree
    /\ modsMtx' = t
    /\ loc' = [loc EXCEPT ![t] = [NoLoc EXCEPT !.op = "RemoveFiles", !.todo = batch]]
    /\ pc' = [pc EXCEPT ![t] = "rm_next"]
    /\ ret' = NoRet
    /\ UNCHANGED <<now, files, collFuncs, collDelims, collOptions, dirs, tmpls, heap,
                   mtxReaders, stopChan, h, obs>>

\* UnwatchDir(dir) (part_000 346-360): modsMtx is taken and the directory
\* deleted from t.dirs under t.mtx.Lock
UnwatchDir(t, d) ==
    /\ CanCall(t)
    /\ ModsFree
    /\ CanLock
    /\ modsMtx' = t
    /\ dirs' = [dirs EXCEPT ![d] = "unwatched"]
    /\ loc' = [loc EXCEPT ![t] = [NoLoc EXCEPT !.op = "UnwatchDir", !.path = d]]
    /\ pc' = [pc EXCEPT ![t] = "ud_walk"]
    /\ ret' = NoRet
    /\ UNCHANGED <<now, files, collFuncs, collDelims, collOptions, tmpls, heap,
                   mtxReaders, stopChan, h, obs>>

\* the files filepath.Walk(absPath) visits (lines 362-368): those on the
\* disk under the directory
Walked(fs, d) == {p \in Paths : Dir(p) = d /\ fs[p].exists}

UnwatchWalk(t) ==
    /\ pc[t] = "ud_walk"
    /\ LET found == Walked(files, loc[t].path) IN
       IF found = {}
       THEN /\ Return(t, "UnwatchDir", loc[t].path, "nil", NoOutput)
            /\ modsMtx' = NoProc
            /\ loc' = [loc EXCEPT ![t] = NoLoc]
       ELSE /\ \E q \in Orders(found) : loc' = [loc EXCEPT ![t].todo = q]
            /\ pc' = [pc EXCEPT ![t] = "rm_next"]
            /\ ret' = NoRet
            /\ UNCHANGED modsMtx
    /\ UNCHANGED <<now, files, collFuncs, collDelims, collOptions, dirs, tmpls, heap,
                   mtxReaders, stopChan, h, obs>>

\* removeFiles (part_000 261-270) for the next filename:
\* delete(t.tmpls, absPath) under t.mtx.Lock; the call returns after the
\* last one
RemoveFilesNext(t) ==
    /\ pc[t] = "rm_next"
    /\ IF loc[t].todo = <<>>
       THEN UNCHANGED <<tmpls, heap, obs>>
       ELSE /\ CanLock
            /\ tmpls' = [tmpls EXCEPT ![Head(loc[t].todo)] = Nil]
            /\ heap' = Gc(heap, RefsOf(tmpls', h))
            /\ obs' = GcLog(obs, RefsOf(tmpls', h))
    /\ IF Len(loc[t].todo) <= 1
       THEN /\ Return(t, loc[t].op, loc[t].path, "nil", NoOutput)
            /\ modsMtx' = NoProc
            /\ loc' = [loc EXCEPT ![t] = NoLoc]
       ELSE /\ loc' = [loc EXCEPT ![t].todo = Tail(@)]
            /\ UNCHANGED <<pc, modsMtx>>
            /\ ret' = NoRet
    /\ UNCHANGED <<now, files, collFuncs, collDelims, collOptions, dirs, mtxReaders,
                   stopChan, h>>

(***************************************************************************)
(* The collection's function table (part_000 106-134).                     *)
(***************************************************************************)
\* the broadcast under t.mtx.Lock: every Tmpl of the map is told
BroadcastAdd(hp, names) ==
    [i \in TmplIds |-> IF i \in Range(tmpls) THEN TmplFuncsAdd(hp[i], names) ELSE hp[i]]
BroadcastRemove(hp, names) ==
    [i \in TmplIds |-> IF i \in Range(tmpls) THEN TmplFuncsRemove(hp[i], names) ELSE hp[i]]

\* FuncAdd(name, function) and FuncsAdd(funcMap), line 108 and line 118:
\* t.funcMap.funcsAdd, under the funcMap's own mutex
FuncsAdd(t, names) ==
    /\ CanCall(t)
    /\ collFuncs' = collFuncs \cup names
    /\ loc' = [loc EXCEPT ![t] = [NoLoc EXCEPT !.op = "FuncsAdd", !.names = names]]
    /\ pc' = [pc EXCEPT ![t] = "fa_bcast"]
    /\ ret' = NoRet
    /\ UNCHANGED <<now, files, collDelims, collOptions, dirs, tmpls, heap, mtxReaders,
                   modsMtx, stopChan, h, obs>>

\* lines 109-113 and 119-123
FuncsAddBroadcast(t) ==
    /\ pc[t] = "fa_bcast"
    /\ CanLock
    /\ heap' = BroadcastAdd(heap, loc[t].names)
    /\ Return(t, "FuncsAdd", NoPath, "nil", NoOutput)
    /\ loc' = [loc EXCEPT ![t] = NoLoc]
    /\ UNCHANGED <<now, files, collFuncs, collDelims, collOptions, dirs, tmpls, mtxReaders,
                   modsMtx, stopChan, h, obs>>

\* FuncsRemove(names...), line 128
FuncsRemove(t, names) ==
    /\ CanCall(t)
    /\ collFuncs' = collFuncs \ names
    /\ loc' = [loc EXCEPT ![t] = [NoLoc EXCEPT !.op = "FuncsRemove", !.names = names]]
    /\ pc' = [pc EXCEPT ![t] = "fr_bcast"]
    /\ ret' = NoRet
    /\ UNCHANGED <<now, files, collDelims, collOptions, dirs, tmpls, heap, mtxReaders,
                   modsMtx, stopChan, h, obs>>

\* lines 129-133
FuncsRemoveBroadcast(t) ==
    /\ pc[t] = "fr_bcast"
    /\ CanLock
    /\ heap' = BroadcastRemove(heap, loc[t].names)
    /\ Return(t, "FuncsRemove", NoPath, "nil", NoOutput)
    /\ loc' = [loc EXCEPT ![t] = NoLoc]
    /\ UNCHANGED <<now, files, collFuncs, collDelims, collOptions, dirs, tmpls, mtxReaders,
                   modsMtx, stopChan, h, obs>>

(***************************************************************************)
(* TmplColl.Delims and TmplColl.Option (part_000 99-104, 136-149): the     *)
(* defaults parseFiles gives the Tmpls it creates, set under t.mtx.Lock.   *)
(***************************************************************************)
Delims(t, left) ==
    /\ CanCall(t)
    /\ CanLock
    /\ collDelims' = left
    /\ Return(t, "Delims", NoPath, "nil", NoOutput)
    /\ UNCHANGED <<now, files, collFuncs, collOptions, dirs, tmpls, heap, mtxReaders,
                   modsMtx, stopChan, loc, h, obs>>

\* Option("missingkey=" + value)
Option(t, value) ==
    /\ CanCall(t)
    /\ CanLock
    /\ collOptions' = value
    /\ Return(t, "Option", NoPath, "nil", NoOutput)
    /\ UNCHANGED <<now, files, collFuncs, collDelims, dirs, tmpls, heap, mtxReaders,
                   modsMtx, stopChan, loc, h, obs>>

(***************************************************************************)
(* The background goroutine and Stop (part_000 73-97).  Stop is called at  *)
(* most once: a second close(stopChan) panics.                             *)
(***************************************************************************)
\* case <-ticker.C: the sweep is begun
BgTick ==
    /\ pc[Bg] = "select"
    /\ pc' = [pc EXCEPT ![Bg] = "id_call"]
    /\ UNCHANGED <<now, files, collFuncs, collDelims, collOptions, dirs, tmpls, heap,
                   mtxReaders, modsMtx, stopChan, loc, h, obs>>
    /\ ret' = NoRet

\* case <-tmplColl.stopChan: the goroutine returns, wg.Done()
BgStop ==
    /\ pc[Bg] = "select"
    /\ stopChan = "closed"
    /\ pc' = [pc EXCEPT ![Bg] = "exited"]
    /\ UNCHANGED <<now, files, collFuncs, collDelims, collOptions, dirs, tmpls, heap,
                   mtxReaders, modsMtx, stopChan, loc, h, obs>>
    /\ ret' = NoRet

\* line 95: close(t.stopChan)
Stop(t) ==
    /\ CanCall(t)
    /\ stopChan = "open"
    /\ stopChan' = "closed"
    /\ pc' = [pc EXCEPT ![t] = "stop_wait"]
    /\ loc' = [loc EXCEPT ![t] = [NoLoc EXCEPT !.op = "Stop"]]
    /\ ret' = NoRet
    /\ UNCHANGED <<now, files, collFuncs, collDelims, collOptions, dirs, tmpls, heap, mtxReaders,
                   modsMtx, h, obs>>

\* line 96: t.wg.Wait()
WaitNothing == TRUE
WaitDone == pc[Bg] = "exited"

StopWait(t) ==
    /\ pc[t] = "stop_wait"
    /\ WaitDone
    /\ Return(t, "Stop", NoPath, "nil", NoOutput)
    /\ loc' = [loc EXCEPT ![t] = NoLoc]
    /\ UNCHANGED <<now, files, collFuncs, collDelims, collOptions, dirs, tmpls, heap, mtxReaders,
                   modsMtx, stopChan, h, obs>>

(***************************************************************************)
(* Freshness of one cached path: two clients execute it while one of them  *)
(* parses and reloads it, and the file is rewritten and deleted.           *)
(***************************************************************************)
PathA == "d/a.html"
PathB == "e/b.txt"

NextFresh ==
    \/ Tick
    \/ \E s \in {"s0", "s1"} : WriteFile(PathA, s)
    \/ DeleteFile(PathA)
    \/ \E t \in Threads :
        \/ ExecuteTemplate(t, PathA)
        \/ ExecCheck(t)
        \/ ExecRefresh(t)
        \/ ExecRender(t)
    \/ \E t \in {"t1"} :
        \/ ParseFiles(t, <<PathA>>)
        \/ ParseFilesParse(t)
        \/ ParseFilesPublish(t)
        \/ ReloadFiles(t, <<PathA>>)
        \/ ReloadFilesNext(t)
        \/ ParseFileCheck(t)
        \/ ParseFileCompile(t)

SpecFresh == Init /\ [][NextFresh]_vars

\* an Execute of t returns what it rendered
Renders(t) == pc[t] = "ex_render" /\ pc'[t] = "idle"

NextFuncs ==
    \/ Tick
    \/ \E s \in {"s0", "sF"} : WriteFile(PathA, s)
    \/ \E t \in {"t1"} :
        \/ ExecuteTemplate(t, PathA)
        \/ ExecCheck(t)
        \/ ExecRefresh(t)
        \/ ExecRender(t)
        \/ ParseFiles(t, <<PathA>>)
        \/ ParseFilesParse(t)
        \/ ParseFilesPublish(t)
        \/ FuncsAdd(t, {"F", "G"})
        \/ FuncsAddBroadcast(t)
    \/ \E t \in {"t2"} :
        \/ \E n \in {{"F"}, {"G"}} : FuncsRemove(t, n)
        \/ FuncsRemoveBroadcast(t)

SpecFuncs == Init /\ [][NextFuncs]_vars

\* FuncAdd or FuncsAdd of t returns
FuncsAdded(t) == pc[t] = "fa_bcast" /\ pc'[t] = "idle"

\* C2: when FuncsAdd(names) returns, every Tmpl then in the map has the
\* names in its own function table and is marked for recompilation, and a
\* compile of it, of a source that calls only these names, succeeds
C2_FunctionVisibility ==
    [][\A t \in Threads :
         FuncsAdded(t) =>
            \A p \in Keys' :
                LET tm == heap'[tmpls'[p]] IN
                /\ loc[t].names \subseteq tm.funcs
                /\ tm.funcMapUpdated
                /\ \A s \in Sources :
                     SrcRefs(s) \subseteq loc[t].names =>
                        LET r == CompileSection(tm, p, now', File(now', s), now') IN
                        r.compiled /\ r.err = "nil" /\ r.t.tmpl.src = s]_vars

\* FuncsAdd is about to return while the map holds a Tmpl that was parsed
\* before the function was added and lacks it
C2_Witness ==
    \E t \in Threads :
        /\ pc[t] = "fa_bcast"
        /\ mtxReaders = {}
        /\ tmpls[PathA] # Nil
        /\ heap[tmpls[PathA]].tmpl # NilTemplate
        /\ ~("F" \in heap[tmpls[PathA]].funcs)

\* the cached Tmpl id was compiled from a source that calls a function its
\* table has lost, and its file has not changed since
LostFunc(id) ==
    LET tm == heap[id]
        f == Stat(files, tm.lastParsed) IN
    /\ tm.tmpl # NilTemplate
    /\ ~(SrcRefs(tm.tmpl.src) \subseteq tm.funcs)
    /\ f.exists /\ f.mtime = tm.lastMod /\ f.src = tm.tmpl.src

\* the refresh of an Execute of t has made its stat and compile
Refreshes(t) ==
    /\ pc[t] = "ex_refresh"
    /\ pc'[t] # "ex_refresh"
    /\ heap[loc[t].cur].lastUpdate < loc[t].ct

\* C3: after FuncsRemove of a function the cached template calls, the file
\* unchanged, the Execute that makes the first refresh recompiles with no
\* change of modification time and returns the error, rendering nothing;
\* when every function the file calls is still in the table, the refresh
\* succeeds and the call goes on to render
C3_DeletionSemantics ==
    [][\A t \in Threads :
         Refreshes(t) =>
            LET id == loc[t].cur
                f == Stat(files, heap[id].lastParsed) IN
            /\ LostFunc(id) =>
                 /\ pc'[t] = "idle"
                 /\ ret'.by = t /\ ret'.err = "ParseErr" /\ ret'.out = NoOutput
            /\ (f.exists /\ SrcRefs(f.src) \subseteq heap[id].funcs) =>
                 /\ pc'[t] = "ex_render"
                 /\ heap'[id].tmpl = Compiled(f, heap[id].delims, heap[id].funcs,
                                          heap[id].options)]_vars

\* an Execute is about to refresh a Tmpl that has lost a function it calls
C3_Witness ==
    \E t \in Threads :
        /\ pc[t] = "ex_refresh"
        /\ heap[loc[t].cur].lastUpdate < loc[t].ct
        /\ LostFunc(loc[t].cur)


(***************************************************************************)
(* One Tmpl of its own: NewTmpl(m) shared by two clients, which parse,     *)
(* reload and execute it while the file is rewritten and deleted.  sF      *)
(* calls F, which this Tmpl is never given: it does not compile.           *)
(***************************************************************************)
TheTmpl == 1

\* a client's own Tmpl, NewTmpl(m) with m among intvls
InitTmplIn(intvls) ==
    /\ now = 0
    /\ files = [p \in Paths |-> NoFile]
    /\ collFuncs = {}
    /\ collDelims = Left
    /\ collOptions = NoOption
    /\ dirs = [d \in Dirs |-> "unwatched"]
    /\ tmpls = [p \in Paths |-> Nil]
    /\ \E m \in intvls :
         heap = [i \in TmplIds |-> IF i = TheTmpl THEN NewTmpl(m) ELSE ZeroTmpl]
    /\ mtxReaders = {}
    /\ modsMtx = NoProc
    /\ stopChan = "open"
    /\ pc = [t \in Procs |-> IF t = Bg THEN "select" ELSE "idle"]
    /\ loc = [t \in Procs |-> NoLoc]
    /\ h = [t \in Threads |-> TheTmpl]
    /\ ret = NoRet
    /\ obs = [i \in TmplIds |-> NoObs]

InitTmpl == InitTmplIn(MinIntvls \ {0})

NextTmpl ==
    \/ Tick
    \/ \E s \in {"s0", "sF"} : WriteFile(PathA, s)
    \/ DeleteFile(PathA)
    \/ \E t \in {"t1"} :
        \/ HandleParseFile(t, PathA)
        \/ HandleReload(t)
        \/ ParseFileCheck(t)
        \/ ParseFileCompile(t)
    \/ \E t \in Threads :
        \/ HandleExecute(t)
        \/ ExecCheck(t)
        \/ ExecRefresh(t)
        \/ ExecRender(t)

SpecTmpl == InitTmpl /\ [][NextTmpl]_vars

\* the fields of a Tmpl that a failed load must leave alone
Kept(tm) == <<tm.tmpl, tm.lastMod, tm.lastParsed>>

C8_RefreshErrorReturned ==
    [][\A t \in Threads :
         Refreshes(t) =>
            LET tm == heap[loc[t].cur]
                r == ParseFileNow(tm, tm.lastParsed, files, now) IN
            r.err # "nil" =>
               /\ pc'[t] = "idle"
               /\ ret'.by = t /\ ret'.op = "Execute"
               /\ ret'.err = r.err
               /\ ret'.out = NoOutput]_vars

\* an Execute is about to make a refresh that fails, of a Tmpl that holds a
\* compiled template it could render
C8_Witness ==
    \E t \in Threads :
        /\ pc[t] = "ex_refresh"
        /\ heap[loc[t].cur].lastUpdate < loc[t].ct
        /\ heap[loc[t].cur].tmpl # NilTemplate
        /\ ParseFileNow(heap[loc[t].cur], heap[loc[t].cur].lastParsed, files, now).err # "nil"

(***************************************************************************)
(* The throttle of one Tmpl of its own: one client parses it, both execute *)
(* it, and the clock runs long enough for a window of two seconds to       *)
(* elapse twice.                                                           *)
(***************************************************************************)
NextThrottle ==
    \/ TickLong
    \/ WriteFile(PathA, "s0")
    \/ \E t \in {"t1"} :
        \/ HandleParseFile(t, PathA)
        \/ ParseFileCheck(t)
        \/ ParseFileCompile(t)
    \/ \E t \in Threads :
        \/ HandleExecute(t)
        \/ ExecCheck(t)
        \/ ExecRefreshLong(t)
        \/ ExecRender(t)

SpecThrottle == InitTmpl /\ [][NextThrottle]_vars

\* the refresh section of an Execute of t runs and makes its os.Stat
StatsFile(t) ==
    /\ pc[t] = "ex_refresh"
    /\ pc'[t] # "ex_refresh"
    /\ RefreshSection(heap[loc[t].cur], loc[t].ct, files, now, now).stat

\* C9: with minUpdateIntvlSecs >= 1, a stat made by the refresh of an
\* Execute comes at least minUpdateIntvlSecs after the last one made by an
\* Execute on the same Tmpl
C9_ThrottleBound ==
    [][\A t \in Threads :
         (StatsFile(t) /\ heap[loc[t].cur].minUpdateIntvlSecs >= 1
                       /\ obs[loc[t].cur].stat # MinInt64)
            => now - obs[loc[t].cur].stat >= heap[loc[t].cur].minUpdateIntvlSecs]_vars

\* two Executes are in flight on a Tmpl with a window of two seconds, one
\* about to make a refresh after an earlier Execute has made one
C9_Witness ==
    \E t \in Threads :
        /\ pc[t] = "ex_refresh"
        /\ heap[loc[t].cur].lastUpdate < loc[t].ct
        /\ heap[loc[t].cur].minUpdateIntvlSecs = 2
        /\ obs[loc[t].cur].stat # MinInt64
        /\ \E u \in Threads \ {t} : pc[u] \in {"ex_check", "ex_refresh"}


(***************************************************************************)
(* The map and the sweeps: one client parses the two paths as a batch and  *)
(* watches a directory, the other executes the paths, sweeps and stops the *)
(* collection, while the background goroutine sweeps and the files are     *)
(* written and deleted.  The clock stands still: no refresh comes due.     *)
(***************************************************************************)
NextSweep ==
    \/ \E p \in Paths : WriteFile(p, "s0")
    \/ \E p \in Paths : DeleteFile(p)
    \/ \E t \in {"t1"} :
        \/ ParseFiles(t, <<PathA, PathB>>)
        \/ WatchDir(t, "d", "nil")
    \/ \E t \in {"t2"} :
        \/ \E p \in Paths : ExecuteTemplate(t, p)
        \/ ExecCheck(t)
        \/ ExecRender(t)
        \/ Stop(t)
        \/ StopWait(t)
    \/ \E t \in Procs :
        \/ ParseFilesParse(t)
        \/ ParseFilesPublish(t)
    \/ \E t \in {"t2", Bg} :
        \/ RemoveStaleTemplates(t)
        \/ RemoveStaleStep(t)
    \/ IndexDirs(Bg)
    \/ BgTick
    \/ BgStop

SpecSweep == Init /\ [][NextSweep]_vars

\* a sweep of t returns
Swept(t) == pc[t] = "rs_stat" /\ pc'[t] # "rs_stat"

\* C4: when RemoveStaleTemplates returns, called by a client or by the
\* background goroutine, no key whose file has been missing since the sweep
\* began is left in the map and every key whose file has been there all
\* along is; ExecuteTemplate of a path that is no key returns the not-exist
\* error, and a path becomes a key again only when parseFiles publishes it
C4_StaleEviction ==
    [][/\ \A t \in Procs :
            Swept(t) => /\ loc[t].gone \cap Keys' = {}
                        /\ loc[t].stay \subseteq Keys'
       /\ \A t \in Threads :
            (pc[t] = "idle" /\ pc'[t] = "ex_check") => loc'[t].path \in Keys
       /\ ret'.op = "ExecuteTemplate" =>
            /\ ~(ret'.path \in Keys)
            /\ ret'.err = "ErrNotExist"
       /\ \A p \in Paths :
            (~(p \in Keys) /\ p \in Keys') =>
               \E t \in Procs : pc[t] = "pfs_publish" /\ loc[t].path = p]_vars

\* a sweep is about to stat its last key, cached and with its file deleted,
\* having kept a key whose file is there
C4_Witness ==
    \E t \in Procs :
        /\ pc[t] = "rs_stat"
        /\ loc[t].set = {PathA}
        /\ loc[t].gone = {PathA}
        /\ loc[t].stay = {PathB}
        /\ heap[tmpls[PathB]].tmpl # NilTemplate

\* the load of the first path left of a ParseFiles batch fails
LoadFails(t) ==
    /\ pc[t] = "pfs_parse"
    /\ loc[t].op = "ParseFiles"
    /\ ParseFileNow(BuildTmpl, Head(loc[t].todo), files, now).err # "nil"

\* C5: ParseFiles stops at the first path whose load fails: it returns that
\* error, and publishes no Tmpl for that path or a later one, the map
\* staying as the earlier paths left it
C5_AbortOnFirstFailure ==
    [][\A t \in Threads :
         (LoadFails(t) /\ pc'[t] # pc[t]) =>
            /\ pc'[t] = "idle"
            /\ ret'.by = t /\ ret'.op = "ParseFiles"
            /\ ret'.err = ParseFileNow(BuildTmpl, Head(loc[t].todo), files, now).err
            /\ tmpls' = tmpls]_vars

\* ParseFiles is at a path of its batch whose file is missing, after an
\* earlier path was parsed and published
C5_Witness ==
    \E t \in Threads :
        /\ LoadFails(t)
        /\ Head(loc[t].todo) = PathB
        /\ tmpls[PathA] # Nil
        /\ heap[tmpls[PathA]].tmpl # NilTemplate

\* the collection's state other than the locks and the callers' positions
Cache == <<tmpls, heap, collFuncs, collDelims, collOptions, dirs, files>>

\* C7: ExecuteTemplate of a path that is no key of the map, and Execute of a
\* Tmpl that holds no compiled template, return the not-exist error, write
\* nothing and leave the cache as it was
C7_NotExist ==
    [][\A t \in Threads :
         /\ (pc[t] = "idle" /\ pc'[t] = "ex_check") => loc'[t].path \in Keys
         /\ (ret'.by = t /\ ret'.op = "ExecuteTemplate") =>
               /\ ~(ret'.path \in Keys)
               /\ ret'.err = "ErrNotExist" /\ ret'.out = NoOutput
               /\ Cache' = Cache
         /\ (pc[t] = "ex_check" /\ pc'[t] # "ex_check"
                /\ heap[loc[t].cur].tmpl = NilTemplate) =>
               /\ pc'[t] = "idle"
               /\ ret'.by = t /\ ret'.op = "Execute"
               /\ ret'.err = "ErrNotExist" /\ ret'.out = NoOutput
               /\ Cache' = Cache]_vars

\* an Execute is about to test a Tmpl of the map that has never compiled,
\* while the other path is no key
C7_Witness ==
    \E t \in Threads :
        /\ pc[t] = "ex_check"
        /\ heap[loc[t].cur].tmpl = NilTemplate
        /\ loc[t].path = PathA
        /\ ~(PathB \in Keys)

\* Stop has returned
Stopped == stopChan = "closed" /\ \A t \in Threads : pc[t] # "stop_wait"

\* C10: when Stop has returned the background goroutine has exited, and
\* from then on it takes no step: it begins no IndexDirs and no
\* RemoveStaleTemplates, holds no lock, and every change of the map is a
\* client's
C10_StopAwaitsBackground ==
    [][/\ Stopped' => pc'[Bg] = "exited"
       /\ Stopped =>
            /\ pc'[Bg] = pc[Bg] /\ loc'[Bg] = loc[Bg]
            /\ ret'.by # Bg /\ modsMtx' # Bg
            /\ tmpls' # tmpls =>
                 \E t \in Threads : pc[t] \in {"pfs_publish", "rs_stat"}]_vars

\* Stop waits while the background goroutine is in the middle of a sweep
\* that has keys to stat
C10_Witness ==
    \E t \in Threads :
        /\ pc[t] = "stop_wait"
        /\ pc[Bg] = "rs_stat"
        /\ loc[Bg].gone # {}

(***************************************************************************)
(* The collection's defaults: one client parses, reloads and sets the      *)
(* delimiters and the option; the other executes.                          *)
(***************************************************************************)
NextSettings ==
    \/ WriteFile(PathA, "s0")
    \/ \E t \in {"t1"} :
        \/ \E left \in Delimiters : Delims(t, left)
        \/ \E value \in Options : Option(t, value)
        \/ ParseFiles(t, <<PathA>>)
        \/ ParseFilesParse(t)
        \/ ParseFilesPublish(t)
        \/ ReloadFiles(t, <<PathA>>)
        \/ ReloadFilesNext(t)
        \/ ParseFileCheck(t)
        \/ ParseFileCompile(t)
    \/ \E t \in {"t2"} :
        \/ ExecuteTemplate(t, PathA)
        \/ ExecCheck(t)
        \/ ExecRender(t)

SpecSettings == Init /\ [][NextSettings]_vars

\* TmplColl.Delims or TmplColl.Option returns
SetsDefaults == ret'.op \in {"Delims", "Option"}

\* the delimiters and the option the Tmpls of the map compile with next
InUse == {<<heap[tmpls[p]].delims, heap[tmpls[p]].options>> : p \in Keys}

NextHandle ==
    \/ Tick
    \/ WriteFile(PathA, "s0")
    \/ \E t \in {"t1"} :
        \/ HandleParseFile(t, PathA)
        \/ HandleReload(t)
        \/ ParseFileCheck(t)
        \/ ParseFileCompile(t)
        \/ \E left \in Delimiters : HandleDelims(t, left)
        \/ \E value \in Options : HandleOption(t, value)
        \/ HandleFuncsAdd(t, {"F"})
    \/ \E t \in {"t2"} :
        \/ HandleExecute(t)
        \/ ExecCheck(t)
        \/ ExecRefresh(t)
        \/ ExecRender(t)

SpecHandle == InitTmpl /\ [][NextHandle]_vars

\* a ParseFile or a Reload returns nil, or the refresh of an Execute stats
\* the file and fails not
Loads(t) ==
    \/ /\ pc[t] \in {"pf_check", "pf_compile"}
       /\ pc'[t] = "idle"
       /\ ret'.err = "nil"
    \/ /\ pc[t] = "ex_refresh"
       /\ pc'[t] = "ex_render"
       /\ LET r == RefreshSection(heap[loc[t].cur], loc[t].ct, files, now, now) IN
            r.stat /\ r.err = "nil"

\* C12: Tmpl.Delims and Tmpl.Option mark the Tmpl dirty as the function
\* setters do: after a setter the next ParseFile, Reload or refresh that
\* succeeds leaves a template compiled with the delimiters and the option
\* the Tmpl holds, the file being modified or not
C12_SettersMarkDirty ==
    [][\A t \in Threads :
         Loads(t) =>
            LET tm == heap'[loc[t].cur] IN
            /\ tm.tmpl.delims = tm.delims
            /\ tm.tmpl.options = tm.options]_vars

\* a Reload is begun on a Tmpl no function was added to, compiled from the
\* file as it is now, after Delims gave it another delimiter
C12_Witness ==
    /\ pc["t1"] = "pf_check"
    /\ LET tm == heap[loc["t1"].cur] IN
         /\ tm.tmpl # NilTemplate
         /\ tm.funcs = {} /\ ~tm.funcMapUpdated
         /\ tm.delims # tm.tmpl.delims
         /\ loc["t1"].mt = tm.lastMod

(***************************************************************************)
(* Directories: a client parses, watches, unwatches and removes while the  *)
(* other sweeps and executes; files come and go.                           *)
(***************************************************************************)
NextDirs ==
    \/ \E p \in Paths : WriteFile(p, "s0")
    \/ \E p \in Paths : DeleteFile(p)
    \/ \E t \in {"t1"} :
        \/ ParseFiles(t, <<PathA, PathB>>)
        \/ \E pattern \in Patterns : ParseGlob(t, pattern)
        \/ WatchDir(t, "d", "DirFilterAll")
        \/ UnwatchDir(t, "d")
        \/ RemoveFiles(t, <<PathB>>)
    \/ \E t \in {"t2"} :
        \/ IndexDirs(t)
        \/ RemoveStaleTemplates(t)
        \/ ReloadFiles(t, <<PathA>>)
        \/ ReloadFilesNext(t)
        \/ ParseFileCheck(t)
        \/ ParseFileCompile(t)
        \/ ExecuteTemplate(t, PathA)
        \/ ExecCheck(t)
        \/ ExecRender(t)
    \/ \E t \in Threads :
        \/ ParseFilesParse(t)
        \/ ParseFilesPublish(t)
        \/ UnwatchWalk(t)
        \/ RemoveFilesNext(t)
        \/ RemoveStaleStep(t)

SpecDirs == Init /\ [][NextDirs]_vars

\* C13: when UnwatchDir(dir) returns, dir is not watched and no key of the
\* map lies under dir, whether the file of the key is on the disk or not
C13_UnwatchEvicts ==
    [][ret'.op = "UnwatchDir" =>
          /\ dirs'[ret'.path] = "unwatched"
          /\ \A p \in Keys' : Dir(p) # ret'.path]_vars

\* UnwatchDir has taken the directory off the list and is about to walk it,
\* while a key under it has a compiled Tmpl and no file
C13_Witness ==
    \E t \in Threads :
        /\ pc[t] = "ud_walk"
        /\ \E p \in Keys :
             /\ Dir(p) = loc[t].path
             /\ ~files[p].exists
             /\ heap[tmpls[p]].tmpl # NilTemplate

(***************************************************************************)
(* Stress: the files are there and valid; each client parses its own path  *)
(* and both execute one path, while the clock runs and the file executed   *)
(* is rewritten.                                                           *)
(***************************************************************************)
InitStress ==
    /\ now = 0
    /\ files = [p \in Paths |-> File(0, "s0")]
    /\ collFuncs = {}
    /\ collDelims = Left
    /\ collOptions = NoOption
    /\ dirs = [d \in Dirs |-> "unwatched"]
    /\ tmpls = [p \in Paths |-> Nil]
    /\ heap = [i \in TmplIds |-> ZeroTmpl]
    /\ mtxReaders = {}
    /\ modsMtx = NoProc
    /\ stopChan = "open"
    /\ pc = [t \in Procs |-> IF t = Bg THEN "select" ELSE "idle"]
    /\ loc = [t \in Procs |-> NoLoc]
    /\ h = [t \in Threads |-> Nil]
    /\ ret = NoRet
    /\ obs = [i \in TmplIds |-> NoObs]

NextStress ==
    \/ Tick
    \/ \E s \in {"s0", "s1"} : WriteFile(PathA, s)
    \/ ParseFiles("t1", <<PathA>>)
    \/ ParseFiles("t2", <<PathB>>)
    \/ \E t \in Threads :
        \/ ParseFilesParse(t)
        \/ ParseFilesPublish(t)
        \/ ExecuteTemplate(t, PathA)
        \/ ExecCheck(t)
        \/ ExecRefresh(t)
        \/ ExecRender(t)

SpecStress == InitStress /\ [][NextStress]_vars

\* the step in which parseFiles writes the map
Publishes(t) == pc[t] = "pfs_publish" /\ pc'[t] # "pfs_publish"

\* C14: with ExecuteTemplate calls on one path and ParseFiles calls on
\* disjoint paths interleaved in any way, no entry of the map is lost: a key
\* stays a key, and when a ParseFiles returns the path it parsed is a key
\* whose Tmpl holds the template compiled from that path.  The map is
\* written only by a parseFiles that holds modsMtx, while no goroutine holds
\* the storage lock, and it is read by ExecuteTemplate with the read lock
\* taken
C14_ConcurrentSafety ==
    [][/\ Keys \subseteq Keys'
       /\ \A t \in Threads :
            /\ ret'.by = t /\ ret'.op = "ParseFiles" =>
                 /\ loc[t].path \in Keys'
                 /\ heap'[tmpls'[loc[t].path]].tmpl # NilTemplate
                 /\ heap'[tmpls'[loc[t].path]].lastParsed = loc[t].path
            /\ pc[t] = "idle" /\ pc'[t] = "ex_check" => t \in mtxReaders'
       /\ tmpls' # tmpls =>
            /\ mtxReaders = {}
            /\ \E t \in Threads : Publishes(t) /\ modsMtx = t]_vars

\* a ParseFiles is about to publish the path the other client is executing,
\* the read lock held, while the other path is a key
C14_Witness ==
    /\ pc["t1"] = "pfs_publish"
    /\ loc["t1"].path = PathA
    /\ "t2" \in mtxReaders
    /\ loc["t2"].path = PathA
    /\ Keys = Paths

\* the compile section run by t's step: of a ParseFile or a Reload, or of
\* the refresh of an Execute
Section(t) ==
    IF pc[t] = "pf_compile" /\ pc'[t] # "pf_compile"
    THEN CompileSection(heap[loc[t].cur], loc[t].path, loc[t].mt,
                        Stat(files, loc[t].path), now)
    ELSE IF pc[t] = "ex_refresh" /\ pc'[t] # "ex_refresh"
    THEN RefreshSection(heap[loc[t].cur], loc[t].ct, files, now, now)
    ELSE [err |-> "nil", compiled |-> FALSE]

\* the modification time that section compares with lastMod
StatMtime(t) ==
    IF pc[t] = "pf_compile" THEN loc[t].mt
    ELSE Stat(files, heap[loc[t].cur].lastParsed).mtime

\* C15: a compile is made only when the file's modification time differs
\* from lastMod or the dirty flag is set, and a successful compile clears the
\* flag: in the state it leaves, a further load of the file with the
\* modification time just recorded would compile nothing
C15_CompileClearsDirty ==
    [][\A t \in Threads :
         Section(t).compiled =>
            /\ Modified(heap[loc[t].cur], StatMtime(t))
            /\ Section(t).err = "nil" =>
                 /\ ~heap'[loc[t].cur].funcMapUpdated
                 /\ ~Modified(heap'[loc[t].cur], heap'[loc[t].cur].lastMod)]_vars

\* a ParseFile is about to compile, with success, a Tmpl whose dirty flag a
\* function setter has set
C15_Witness ==
    /\ pc["t1"] = "pf_compile"
    /\ LET tm == heap[loc["t1"].cur] IN
         /\ tm.funcMapUpdated
         /\ ParseFilesErr(Stat(files, loc["t1"].path), tm.delims, tm.funcs) = "nil"

(***************************************************************************)
(* The throttle policy, for every argument of NewTmpl: the clients execute *)
(* a Tmpl of their own, one of them parses it, the clock runs.             *)
(***************************************************************************)
InitPolicy == InitTmplIn(MinIntvls)

NextPolicy ==
    \/ Tick
    \/ WriteFile(PathA, "s0")
    \/ \E t \in {"t1"} :
        \/ HandleParseFile(t, PathA)
        \/ ParseFileCheck(t)
        \/ ParseFileCompile(t)
    \/ \E t \in Threads :
        \/ HandleExecute(t)
        \/ ExecCheck(t)
        \/ ExecRefresh(t)
        \/ ExecRender(t)

SpecPolicy == InitPolicy /\ [][NextPolicy]_vars

\* the policy as stated: auto-refresh is on and the window has elapsed
Due(tm, ct) ==
    /\ tm.minUpdateIntvlSecs # AutoRefreshOff
    /\ ct - tm.lastUpdate >= tm.minUpdateIntvlSecs

\* an Execute of t on an initiated Tmpl goes from the check to the render,
\* and leaves the refresh section
SkipsRefresh(t) == pc[t] = "ex_check" /\ pc'[t] = "ex_render"
LeavesRefresh(t) == pc[t] = "ex_refresh" /\ pc'[t] # "ex_refresh"

\* a step of an Execute on a Tmpl with auto-refresh off changes neither the
\* Tmpl nor the time of its last stat
OffIsOff(t) ==
    (/\ pc[t] \in {"ex_check", "ex_refresh", "ex_render"}
     /\ pc'[t] # pc[t]
     /\ heap[loc[t].cur].minUpdateIntvlSecs = AutoRefreshOff)
        => /\ ~StatsFile(t)
           /\ heap'[loc[t].cur] = heap[loc[t].cur]
           /\ obs'[loc[t].cur] = obs[loc[t].cur]

\* C16 as stated: Execute on an initiated Tmpl stats the file exactly when
\* minUpdateIntvlSecs # -1 and now - lastUpdate >= minUpdateIntvlSecs, for
\* minUpdateIntvlSecs = 0 too; with -1 it never stats or recompiles
C16_ThrottlePolicy ==
    [][\A t \in Threads :
         LET tm == heap[loc[t].cur] IN
         /\ SkipsRefresh(t) => ~Due(tm, loc[t].ct)
         /\ LeavesRefresh(t) => (StatsFile(t) <=> Due(tm, loc[t].ct))
         /\ OffIsOff(t)]_vars

\* C16, amended: Execute stats the file exactly when minUpdateIntvlSecs # -1,
\* now - lastUpdate >= minUpdateIntvlSecs and lastUpdate < now: as stated
\* for minUpdateIntvlSecs >= 1, and with 0 only when the last update lies
\* before the second the call began in
C16_ThrottlePolicyPerSecond ==
    [][\A t \in Threads :
         LET tm == heap[loc[t].cur] IN
         /\ SkipsRefresh(t) => ~Due(tm, loc[t].ct)
         /\ LeavesRefresh(t) =>
              (StatsFile(t) <=> Due(tm, loc[t].ct) /\ tm.lastUpdate < loc[t].ct)
         /\ OffIsOff(t)]_vars

\* an Execute on a Tmpl with a window of zero seconds is at the refresh
\* section within the second of the last update
C16_Witness ==
    \E t \in Threads :
        /\ pc[t] = "ex_refresh"
        /\ heap[loc[t].cur].minUpdateIntvlSecs = 0
        /\ heap[loc[t].cur].lastUpdate = loc[t].ct

\* no call of a client is in flight
Quiet == \A t \in Threads : pc[t] = "idle"

\* C17: FuncsAdd and FuncsRemove interleaved with ParseFiles in any way,
\* once every call has returned the function table of each Tmpl in the map
\* is the collection's: no Tmpl published around a broadcast misses an added
\* function or keeps a removed one
C17_FunctionTableConsistency ==
    Quiet => \A p \in Keys : heap[tmpls[p]].funcs = collFuncs

\* a Tmpl built by parseFiles waits to be published with a function table
\* that is no longer the collection's, the broadcast of the change over
\* or about to run without it
C17_Witness ==
    /\ pc["t1"] = "pfs_publish"
    /\ loc["t1"].new.funcs # collFuncs
    /\ loc["t1"].new.tmpl # NilTemplate
    /\ pc["t2"] \in {"idle", "fr_bcast"}

\* where a goroutine stats a file, walks a directory, compiles or renders:
\* the refresh and the render of Execute, the load of parseFiles, the stat
\* of RemoveStaleTemplates, the walk of UnwatchDir
SlowSections == {"ex_refresh", "ex_render", "pfs_parse", "rs_stat", "ud_walk"}

\* C18: no goroutine holds the storage lock t.mtx while it stats a file,
\* walks a directory, compiles or renders, ExecuteTemplate included
C18_StorageLockDiscipline ==
    \A t \in Threads : pc[t] \in SlowSections => ~(t \in mtxReaders)

\* an ExecuteTemplate is about to render while a parseFiles waits to
\* publish a Tmpl
C18_Witness ==
    /\ pc["t2"] = "ex_render"
    /\ heap[loc["t2"].cur].tmpl # NilTemplate
    /\ pc["t1"] = "pfs_publish"

\* the goroutines inside the body of ParseFiles, ParseGlob, IndexDirs,
\* ReloadFiles, RemoveFiles, UnwatchDir or RemoveStaleTemplates
InBody ==
    {t \in Procs :
        \/ pc[t] \in {"pfs_parse", "pfs_publish", "rf_next", "rm_next", "ud_walk", "rs_stat"}
        \/ pc[t] \in {"pf_check", "pf_compile"} /\ loc[t].op = "ReloadFiles"}

\* the goroutines evicting: in a stale sweep, an unwatch or a RemoveFiles
Evicting == {t \in Procs : pc[t] \in {"rs_stat", "ud_walk", "rm_next"}}

\* C19: at most one of the structural operations is inside its body, and it
\* holds modsMtx; WatchDir and UnwatchDir change the directories only when
\* no other is in its body; and while a stale sweep, an unwatch or a
\* RemoveFiles is in its body no path becomes a key, so none it has evicted
\* is created again by a parse batch before it returns
C19_StructuralExclusion ==
    [][/\ Cardinality(InBody) <= 1
       /\ \A t \in InBody : modsMtx = t
       /\ dirs' # dirs => InBody = {}
       /\ Evicting # {} => Keys' \subseteq Keys]_vars

\* a stale sweep has evicted a path and has more keys to stat, while the
\* other client is free to call ParseFiles or ParseGlob
C19_Witness ==
    /\ pc["t2"] = "rs_stat"
    /\ loc["t2"].set # {}
    /\ \E p \in loc["t2"].gone : ~(p \in Keys)
    /\ pc["t1"] = "idle"

\* the path p holds a Tmpl with a compiled template in the map m
Usable(m, hp, p) == m[p] # Nil /\ hp[m[p]].tmpl # NilTemplate

\* C20: a load that fails corrupts no good entry: when ParseFiles, ParseGlob
\* or IndexDirs has processed a path that held a compiled Tmpl, the path
\* still holds a Tmpl with a compiled template, which ExecuteTemplate
\* renders
C20_FailedLoadKeepsEntry ==
    [][\A t \in Threads :
         (Publishes(t) /\ Usable(tmpls, heap, loc[t].path))
            => Usable(tmpls', heap', loc[t].path)]_vars

\* a parseFiles whose load of the path failed is about to publish, the path
\* holding a compiled Tmpl
C20_Witness ==
    \E t \in Threads :
        /\ pc[t] = "pfs_publish"
        /\ loc[t].failed
        /\ loc[t].new.tmpl = NilTemplate
        /\ Usable(tmpls, heap, loc[t].path)

(***************************************************************************)
(* Indexing: a client watches the directories with any filter and both     *)
(* clients index, while files are written, with a source that compiles or  *)
(* one that does not, and deleted.                                         *)
(***************************************************************************)
NextIndex ==
    \/ \E p \in Paths, s \in {"s0", "sF"} : WriteFile(p, s)
    \/ \E p \in Paths : DeleteFile(p)
    \/ \E d \in Dirs, filter \in Filters : WatchDir("t1", d, filter)
    \/ \E t \in Threads :
        \/ IndexDirs(t)
        \/ ParseFilesParse(t)
        \/ ParseFilesPublish(t)

SpecIndex == Init /\ [][NextIndex]_vars

\* the regular files under the watched directories that the filter of
\* their directory accepts, DirFilterHTML standing in for nil
ToIndex ==
    {p \in Paths : /\ dirs[Dir(p)] # "unwatched"
                   /\ files[p].exists
                   /\ \/ dirs[Dir(p)] = "DirFilterAll"
                      \/ Ext(p) \in {".html", ".htm"}}

\* t is in the walk of IndexDirs
Indexing(t) == loc[t].op = "IndexDirs" /\ pc[t] \in {"pfs_parse", "pfs_publish"}

\* the step is one of t's batch
Steps(t) == pc'[t] # pc[t] \/ loc'[t].todo # loc[t].todo

\* C21: IndexDirs attempts a parse of every regular file under a watched
\* directory that the directory's filter accepts; a load that fails stops
\* neither the walk nor the indexing of the other directories: the file's
\* path is published and the walk goes on to the next file, and IndexDirs
\* returns after the last one, without an error
C21_IndexBestEffort ==
    [][\A t \in Threads :
         /\ (CanCall(t) /\ Indexing(t)') => Range(loc'[t].todo) = ToIndex
         /\ (CanCall(t) /\ ret'.by = t /\ ret'.op = "IndexDirs") => ToIndex = {}
         /\ (Indexing(t) /\ pc[t] = "pfs_parse" /\ Steps(t)) =>
              /\ pc'[t] = "pfs_publish"
              /\ loc'[t].path = Head(loc[t].todo)
              /\ loc'[t].todo = loc[t].todo
              /\ loc'[t].new = ParseFileNow(BuildTmpl, Head(loc[t].todo), files, now).t
         /\ (Indexing(t) /\ pc[t] = "pfs_publish" /\ Steps(t)) =>
              /\ loc[t].path \in Keys'
              /\ IF Len(loc[t].todo) > 1
                 THEN Indexing(t)' /\ loc'[t].todo = Tail(loc[t].todo)
                 ELSE ret'.by = t /\ ret'.op = "IndexDirs" /\ ret'.err = "nil"]_vars

\* the walk has met a file that failed to load and has another file, of the
\* other directory, left to parse
C21_Witness ==
    \E t \in Threads :
        /\ Indexing(t)
        /\ pc[t] = "pfs_publish"
        /\ loc[t].failed
        /\ Len(loc[t].todo) = 2
        /\ Dir(loc[t].todo[2]) # Dir(loc[t].todo[1])

(***************************************************************************)
(* Progress: one client parses, globs, watches, unwatches and changes the  *)
(* function table while the other executes, looks up and stops the         *)
(* collection, and the background goroutine sweeps at every tick.          *)
(***************************************************************************)
\* Lookup(filename) (part_000 152-167): the map is read under t.mtx.RLock,
\* released by the deferred RUnlock; the handle is nil for a path that is
\* not cached
Lookup(t, p) ==
    /\ CanCall(t)
    /\ h' = [h EXCEPT ![t] = tmpls[p]]
    /\ heap' = Gc(heap, RefsOf(tmpls, h'))
    /\ obs' = GcLog(obs, RefsOf(tmpls, h'))
    /\ Return(t, "Lookup", p, "nil", NoOutput)
    /\ loc' = [loc EXCEPT ![t] = NoLoc]
    /\ UNCHANGED <<now, files, collFuncs, collDelims, collOptions, dirs, tmpls, mtxReaders,
                   modsMtx, stopChan>>

\* the clock runs for one refresh interval, which makes the refresh of a
\* loaded Tmpl due
LiveEnd == DefaultMinUpdateIntvlSecs

\* the steps that carry a call of the goroutine on, once it is under way
Continue(t) ==
    \/ ParseFilesParse(t)
    \/ ParseFilesPublish(t)
    \/ UnwatchWalk(t)
    \/ RemoveFilesNext(t)
    \/ RemoveStaleStep(t)
    \/ FuncsAddBroadcast(t)
    \/ FuncsRemoveBroadcast(t)
    \/ ExecCheck(t)
    \/ ExecRefreshTo(t, LiveEnd)
    \/ ExecRender(t)
    \/ StopWait(t)

\* the sweep of the background goroutine, from the tick that starts it
Sweep ==
    \/ IndexDirs(Bg)
    \/ RemoveStaleTemplates(Bg)
    \/ ParseFilesParse(Bg)
    \/ ParseFilesPublish(Bg)
    \/ RemoveStaleStep(Bg)

NextLive ==
    \/ TickTo(LiveEnd)
    \/ ParseFiles("t1", <<PathA>>)
    \/ ParseGlob("t1", "d/*")
    \/ WatchDir("t1", "d", "DirFilterAll")
    \/ UnwatchDir("t1", "d")
    \/ FuncsAdd("t1", {"F"})
    \/ FuncsRemove("t1", {"F"})
    \/ ExecuteTemplate("t2", PathA)
    \/ Lookup("t2", PathB)
    \/ Stop("t2")
    \/ \E t \in Threads : Continue(t)
    \/ BgTick
    \/ BgStop
    \/ Sweep

\* scheduling: a goroutine that can run does run; sync.Mutex and
\* sync.RWMutex hand the lock to a goroutine that waits for it, and select
\* picks among its ready cases at random, so a step that is possible time
\* and again is taken
Fairness ==
    /\ \A t \in Threads : SF_vars(Continue(t))
    /\ SF_vars(Sweep)
    /\ SF_vars(BgStop)

SpecLive == InitStress /\ [][NextLive]_vars /\ Fairness

\* in a call (for the background goroutine: in a sweep)
Busy(p) == pc[p] \notin {"idle", "select", "exited"}

\* C22: no reachable state is a deadlock (whenever some goroutine is in a
\* call, some goroutine can take the next step of its call or its sweep, or
\* the background goroutine the case of the closed channel), and under fair
\* scheduling every call returns and every sweep ends, both locks are free
\* time and again for the calls that wait to enter, and once Stop has
\* closed the channel the background goroutine exits and Stop returns
C22_DeadlockFreedom ==
    /\ []((\E p \in Procs : Busy(p)) =>
             ENABLED ((\E t \in Threads : Continue(t)) \/ Sweep \/ BgStop))
    /\ \A p \in Procs : Busy(p) ~> ~Busy(p)
    /\ []<>ModsFree
    /\ []<>CanLock
    /\ (stopChan = "closed") ~> (pc[Bg] = "exited" /\ pc["t2"] = "idle")
C22_Witness ==
    /\ pc["t2"] = "stop_wait"
    /\ pc[Bg] \in {"id_call", "rs_call"}
    /\ modsMtx = "t1"

(***************************************************************************)
(* The collection's defaults while a batch is parsed: one client parses    *)
(* both paths while the other sets the delimiters and the option and       *)
(* executes.  parseFiles reads t.delims and ranges over t.options with no  *)
(* lock held (part_000 197-204), so the section of a setter, which holds   *)
(* t.mtx.Lock, can run while the defaults are read.                        *)
(***************************************************************************)
\* lines 196-204 with the defaults as the reader saw them
BuildTmplSeen(delims, options) ==
    LET tmpl == TmplFuncsAdd(TmplDelims(NewTmpl(DefaultMinUpdateIntvlSecs), delims),
                             collFuncs) IN
    IF options = NoOption THEN tmpl ELSE TmplOption(tmpl, options)

\* lines 196-207 while u runs Delims(left): the two strings of t.delims are
\* read while they are written, so the reader has the old pair, the new
\* pair, or the left of one with the right of the other
ParseFilesRaceDelims(t, u) ==
    /\ pc[t] = "pfs_parse"
    /\ CanCall(u)
    /\ CanLock
    /\ \E left \in Delimiters \ {collDelims} :
        \E seen \in {collDelims, left, TornLeft, TornRight} :
           LET p == Head(loc[t].todo)
               r == ParseFileNow(BuildTmplSeen(seen, collOptions), p, files, now) IN
           /\ collDelims' = left
           /\ loc' = [loc EXCEPT ![t].new = r.t, ![t].path = p,
                                 ![t].failed = @ \/ r.err # "nil"]
           /\ pc' = [pc EXCEPT ![t] = "pfs_publish"]
           /\ ret' = [by |-> u, op |-> "Delims", path |-> NoPath, err |-> "nil",
                      out |-> NoOutput]
    /\ UNCHANGED <<now, files, collFuncs, collOptions, dirs, tmpls, heap, mtxReaders,
                   modsMtx, stopChan, h, obs>>

\* lines 196-207 while u runs Option(value): the map t.options is ranged
\* over while it is written, so the reader has the old map or the new one,
\* or the runtime stops the program ("concurrent map iteration and map
\* write")
ParseFilesRaceOption(t, u) ==
    /\ pc[t] = "pfs_parse"
    /\ CanCall(u)
    /\ CanLock
    /\ \E value \in Options \ {collOptions} :
        /\ collOptions' = value
        /\ \/ \E seen \in {collOptions, value} :
               LET p == Head(loc[t].todo)
                   r == ParseFileNow(BuildTmplSeen(collDelims, seen), p, files, now) IN
               /\ loc' = [loc EXCEPT ![t].new = r.t, ![t].path = p,
                                     ![t].failed = @ \/ r.err # "nil"]
               /\ pc' = [pc EXCEPT ![t] = "pfs_publish"]
               /\ ret' = [by |-> u, op |-> "Option", path |-> NoPath, err |-> "nil",
                          out |-> NoOutput]
           \/ /\ pc' = [q \in Procs |-> "fatal"]
              /\ ret' = NoRet
              /\ UNCHANGED loc
    /\ UNCHANGED <<now, files, collFuncs, collDelims, dirs, tmpls, heap, mtxReaders,
                   modsMtx, stopChan, h, obs>>

NextRace ==
    \/ ParseFiles("t1", <<PathA, PathB>>)
    \/ ParseFilesParse("t1")
    \/ ParseFilesPublish("t1")
    \/ \E left \in Delimiters : Delims("t2", left)
    \/ \E value \in Options : Option("t2", value)
    \/ ParseFilesRaceDelims("t1", "t2")
    \/ ParseFilesRaceOption("t1", "t2")
    \/ ExecuteTemplate("t2", PathA)
    \/ ExecCheck("t2")
    \/ ExecRender("t2")

SpecRace == InitStress /\ [][NextRace]_vars

\* C23: the defaults are read and written under the storage lock only, so
\* no step in which parseFiles reads t.delims and t.options (it passes
\* lines 196-207) is one in which a Delims or Option call writes them
C23_DefaultsUnderLock ==
    [][\A t \in Procs :
         (pc[t] = "pfs_parse" /\ pc'[t] # "pfs_parse") =>
             /\ ret'.op \notin {"Delims", "Option"}
             /\ pc'[t] # "fatal"]_vars
C23_Witness ==
    \E p \in Paths : /\ tmpls[p] # Nil
                     /\ heap[tmpls[p]].delims = TornLeft
                     /\ collDelims = Alt
                     /\ ret.op = "Execute" /\ ret.path = p /\ ret.out.kind = "raw"

(***************************************************************************)
(* Handles: one client sets the collection's delimiters and parses, globs  *)
(* and indexes the path again and again, while the other                   *)
(* looks the path up, sets delimiters, option and functions through the    *)
(* handle, and executes through the handle and through the collection.     *)
(***************************************************************************)
NextHandles ==
    \/ TickTo(LiveEnd)
    \/ \E left \in Delimiters : Delims("t1", left)
    \/ ParseFiles("t1", <<PathA>>)
    \/ ParseGlob("t1", "d/*")
    \/ WatchDir("t1", "d", "nil")
    \/ IndexDirs("t1")
    \/ ParseFilesParse("t1")
    \/ ParseFilesPublish("t1")
    \/ Lookup("t2", PathA)
    \/ HandleDelims("t2", Alt)
    \/ HandleOption("t2", "error")
    \/ HandleFuncsAdd("t2", {"F"})
    \/ HandleExecute("t2")
    \/ ExecuteTemplate("t2", PathA)
    \/ ExecCheck("t2")
    \/ ExecRefreshTo("t2", LiveEnd)
    \/ ExecRender("t2")

SpecHandles == InitStress /\ [][NextHandles]_vars

\* the settings of a Tmpl
Settings(tm) == <<tm.delims, tm.options, tm.funcs>>

\* C24: when parseFiles publishes a path, cached before or not, the entry
\* is a Tmpl no handle refers to, whose settings are the collection's
\* delimiters, options and functions; the Tmpls that handles refer to,
\* the replaced one among them, are left as they are.  A setter called
\* through a handle changes the Tmpl of the handle and no other, and
\* ExecuteTemplate executes the Tmpl of the map
C24_ParseReplacesTmpl ==
    [][/\ \A t \in Procs : Publishes(t) =>
            LET new == tmpls'[loc[t].path] IN
            /\ new # Nil
            /\ heap'[new] = loc[t].new
            /\ Settings(heap'[new]) = <<collDelims, collOptions, collFuncs>>
            /\ \A u \in Threads : h[u] # Nil =>
                   /\ h'[u] = h[u]
                   /\ new # h[u]
                   /\ heap'[h[u]] = heap[h[u]]
       /\ \A u \in Threads :
            /\ (ret'.by = u /\ ret'.op \in {"Tmpl.Delims", "Tmpl.Option", "Tmpl.FuncsAdd"}) =>
                   \A i \in TmplIds \ {h[u]} : heap'[i] = heap[i]
            /\ (CanCall(u) /\ pc'[u] = "ex_check" /\ loc'[u].path # NoPath) =>
                   loc'[u].cur = tmpls[loc'[u].path]]_vars
C24_Witness ==
    /\ h["t2"] # Nil
    /\ tmpls[PathA] \notin {Nil, h["t2"]}
    /\ Settings(heap[h["t2"]]) = <<Alt, "error", {"F"}>>
    /\ Settings(heap[tmpls[PathA]]) = <<Left, NoOption, {}>>
    /\ ret.by = "t2" /\ ret.op = "Execute" /\ ret.path = PathA /\ ret.out.kind = "evaluated"

====
